---- MODULE Spec2Model ----
(***************************************************************************)
(* The Kavita source extension (src/src/Kavita): the settings store and    *)
(* its writers (Common.ts, Settings.ts), the request interceptor and the   *)
(* adapter operations of the Kavita class (Kavita.ts).                     *)
(*                                                                         *)
(* JavaScript strings are tuples of one-character strings, so that substr, *)
(* slice, encodeURIComponent and base64 are computed and not assumed.      *)
(* JavaScript objects are functions on the keys that are present: a key    *)
(* that is absent from the domain reads as undefined.                      *)
(***************************************************************************)
EXTENDS Integers, Sequences, FiniteSets, TLC

VARIABLES
    state,       \* stateManager.store / retrieve: the plain key-value store
    keychain,    \* stateManager.keychain: the secret store
    submission,  \* the setStateData call in progress (its data and position)
    call,        \* the adapter operation in progress: its locals and position
    request,     \* the request handed to requestManager.schedule, in flight
    scheduled,   \* number of requestManager.schedule calls of the current call
    callbacks,   \* what the current call passed to the host's callback, in order
    outcome      \* how the last finished call ended: returned value or raised

vars == <<state, keychain, submission, call, request, scheduled, callbacks, outcome>>

(***************************************************************************)
(* Bounds of the model.                                                    *)
(***************************************************************************)
\* longest includedTags list of a search query
MaxTags == 2
\* largest page cursor the host passes in metadata
MaxCursor == 1
\* longest content array the server returns for a listing
MaxContent == 2
\* number of non-final pages the update feed can have
MaxFeedPages == 2
\* longest page descriptor list of a chapter
MaxChapterPages == 4

(***************************************************************************)
(* Strings.                                                                *)
(***************************************************************************)
\* the characters of code 32..95, in code order
PrintableLow == <<" ","!","\"","#","$","%","&","'","(",")","*","+",",","-",".","/","0","1","2","3","4","5","6","7","8","9",":",";","<","=",">","?","@","A","B","C","D","E","F","G","H","I","J","K","L","M","N","O","P","Q","R","S","T","U","V","W","X","Y","Z","[","\\","]","^","_">>

\* the characters of code 97..126, in code order
PrintableHigh == <<"a","b","c","d","e","f","g","h","i","j","k","l","m","n","o","p","q","r","s","t","u","v","w","x","y","z","{","|","}","~">>

\* String.prototype.charCodeAt for one character
charCode(c) ==
    IF \E i \in 1..Len(PrintableLow) : PrintableLow[i] = c
    THEN 31 + CHOOSE i \in 1..Len(PrintableLow) : PrintableLow[i] = c
    ELSE 96 + CHOOSE i \in 1..Len(PrintableHigh) : PrintableHigh[i] = c

Digits == <<"0","1","2","3","4","5","6","7","8","9">>

\* `${n}` for a non-negative integer
RECURSIVE numberToString(_)
numberToString(n) ==
    IF n < 10 THEN <<Digits[n + 1]>>
    ELSE numberToString(n \div 10) \o <<Digits[(n % 10) + 1]>>

\* String.prototype.substr(0, n)
substr0(s, n) == SubSeq(s, 1, IF n < Len(s) THEN n ELSE Len(s))

\* String.prototype.substring(n)
substring(s, n) == SubSeq(s, n + 1, Len(s))

\* String.prototype.slice(-1)
sliceLast(s) == IF Len(s) = 0 THEN <<>> ELSE <<s[Len(s)]>>

\* Array.prototype.join
RECURSIVE join(_, _)
join(list, sep) ==
    IF Len(list) = 0 THEN <<>>
    ELSE IF Len(list) = 1 THEN list[1]
    ELSE list[1] \o sep \o join(Tail(list), sep)

\* the characters encodeURIComponent leaves alone, besides letters and digits
UnreservedMarks == {"-", "_", ".", "!", "~", "*", "'", "(", ")"}

HexDigits == <<"0","1","2","3","4","5","6","7","8","9","A","B","C","D","E","F">>

isAlphaNum(c) ==
    LET n == charCode(c)
    IN  \/ (48 <= n /\ n <= 57)
        \/ (65 <= n /\ n <= 90)
        \/ (97 <= n /\ n <= 122)

\* encodeURIComponent of one character of code below 128
encodeChar(c) ==
    IF isAlphaNum(c) \/ c \in UnreservedMarks THEN <<c>>
    ELSE <<"%", HexDigits[(charCode(c) \div 16) + 1], HexDigits[(charCode(c) % 16) + 1]>>

RECURSIVE encodeURIComponent(_)
encodeURIComponent(s) ==
    IF Len(s) = 0 THEN <<>>
    ELSE encodeChar(s[1]) \o encodeURIComponent(Tail(s))

Base64Alphabet == <<"A","B","C","D","E","F","G","H","I","J","K","L","M","N","O","P","Q","R","S","T","U","V","W","X","Y","Z","a","b","c","d","e","f","g","h","i","j","k","l","m","n","o","p","q","r","s","t","u","v","w","x","y","z","0","1","2","3","4","5","6","7","8","9","+","/">>

\* Buffer.from(s, 'binary'): one byte per character, its code modulo 256
RECURSIVE bufferFromBinary(_)
bufferFromBinary(s) ==
    IF Len(s) = 0 THEN <<>>
    ELSE <<charCode(s[1]) % 256>> \o bufferFromBinary(Tail(s))

\* Buffer.prototype.toString('base64')
RECURSIVE toBase64(_)
toBase64(bytes) ==
    IF Len(bytes) = 0 THEN <<>>
    ELSE IF Len(bytes) = 1 THEN
        << Base64Alphabet[(bytes[1] \div 4) + 1],
           Base64Alphabet[((bytes[1] % 4) * 16) + 1], "=", "=" >>
    ELSE IF Len(bytes) = 2 THEN
        << Base64Alphabet[(bytes[1] \div 4) + 1],
           Base64Alphabet[((bytes[1] % 4) * 16 + (bytes[2] \div 16)) + 1],
           Base64Alphabet[((bytes[2] % 16) * 4) + 1], "=" >>
    ELSE
        << Base64Alphabet[(bytes[1] \div 4) + 1],
           Base64Alphabet[((bytes[1] % 4) * 16 + (bytes[2] \div 16)) + 1],
           Base64Alphabet[((bytes[2] % 16) * 4 + (bytes[3] \div 64)) + 1],
           Base64Alphabet[(bytes[3] % 64) + 1] >>
        \o toBase64(SubSeq(bytes, 4, Len(bytes)))

(***************************************************************************)
(* Common.ts: defaults and the accessors of the store.                     *)
(***************************************************************************)
DEFAULT_KAVITA_SERVER_ADDRESS == <<"h","t","t","p","s",":","/","/","m","y",".","k","a","v","i","t","a",".","a","d","d","r","e","s","s">>

DEFAULT_KAVITA_API == <<"/","a","p","i","/">>

DEFAULT_KAVITA_USERNAME == <<"u","s","e","r","n","a","m","e">>

DEFAULT_KAVITA_PASSWORD == <<"p","a","s","s","w","o","r","d">>

DEFAULT_SHOW_ON_DECK == TRUE

\* the object {}: no key is present
EmptyObject == [k \in {} |-> TRUE]

\* obj[key] ?? dflt
orDefault(obj, key, dflt) == IF key \in DOMAIN obj THEN obj[key] ELSE dflt

\* stateManager.store(key, value) and keychain.store(key, value)
storeKey(obj, key, value) == (key :> value) @@ obj

getAuthorizationString(kc) == orDefault(kc, "authorization", <<>>)

\* retrieve('serverAddress') ?? (DEFAULT_KAVITA_SERVER_ADDRESS + DEFAULT_KAVITA_API)
getKavitaAPI(st) ==
    orDefault(st, "serverAddress", DEFAULT_KAVITA_SERVER_ADDRESS \o DEFAULT_KAVITA_API)

getOptions(st) == [showOnDeck |-> orDefault(st, "showOnDeck", DEFAULT_SHOW_ON_DECK)]

createAuthorizationString(username, password) ==
    <<"B","a","s","i","c"," ">> \o toBase64(bufferFromBinary(username \o <<":">> \o password))

createKavitaAPI(serverAddress) ==
    serverAddress \o (IF sliceLast(serverAddress) = <<"/">>
                      THEN <<"a","p","i">>
                      ELSE <<"/","a","p","i","/">>)

(***************************************************************************)
(* Settings.ts: the settings form and the reset button; Common.ts:         *)
(* setStateData, one step per awaited store.                               *)
(***************************************************************************)
\* what a user types into the 'Server URL' field
ServerAddresses == { <<"h","t","t","p",":","/","/","h">>,
                     <<"h","t","t","p",":","/","/","h","/">> }

\* what a user types into the 'API Key' field
APIKeys == { <<"k","1">>, <<"k","2">> }

\* the values the host hands to onSubmit: one per field of the form
FormValues ==
    [serverAddress : ServerAddresses, serverAPIkey : APIKeys, showOnDeck : BOOLEAN]

NoSubmission == [pc |-> "idle"]

\* the position after a store, in the order setStateData awaits them
nextStore(pc) ==
    CASE pc = "serverAddress"  -> "kavitaAPI"
      [] pc = "kavitaAPI"      -> "serverUsername"
      [] pc = "serverUsername" -> "serverPassword"
      [] pc = "serverPassword" -> "authorization"
      [] pc = "authorization"  -> "showOnDeck"
      [] pc = "showOnDeck"     -> "idle"

\* the arguments setStateData passes on, from data and the defaults
apiUriOf(data)   == orDefault(data, "serverAddress", DEFAULT_KAVITA_SERVER_ADDRESS)
usernameOf(data) == orDefault(data, "serverUsername", DEFAULT_KAVITA_USERNAME)
passwordOf(data) == orDefault(data, "serverPassword", DEFAULT_KAVITA_PASSWORD)
showOnDeckOf(data) == orDefault(data, "showOnDeck", DEFAULT_SHOW_ON_DECK)

\* setKavitaServerAddress, setOptions: the plain store after the store at pc
stateAfter(st, data, pc) ==
    CASE pc = "serverAddress" -> storeKey(st, "serverAddress", apiUriOf(data))
      [] pc = "kavitaAPI"     -> storeKey(st, "kavitaAPI", createKavitaAPI(apiUriOf(data)))
      [] pc = "showOnDeck"    -> storeKey(st, "showOnDeck", showOnDeckOf(data))
      [] OTHER                -> st

\* setCredentials: the secret store after the store at pc
\* a setStateData that keeps an authorization header it already stored
keychainAfterCached(kc, data, pc) ==
    CASE pc = "serverUsername" -> storeKey(kc, "serverUsername", usernameOf(data))
      [] pc = "serverPassword" -> storeKey(kc, "serverPassword", passwordOf(data))
      [] pc = "authorization"  ->
            IF "authorization" \in DOMAIN kc THEN kc
            ELSE storeKey(kc, "authorization",
                          createAuthorizationString(usernameOf(data), passwordOf(data)))
      [] OTHER                 -> kc

keychainAfter(kc, data, pc) ==
    CASE pc = "serverUsername" -> storeKey(kc, "serverUsername", usernameOf(data))
      [] pc = "serverPassword" -> storeKey(kc, "serverPassword", passwordOf(data))
      [] pc = "authorization"  ->
            storeKey(kc, "authorization",
                     createAuthorizationString(usernameOf(data), passwordOf(data)))
      [] OTHER                 -> kc

\* setStateData is entered: it runs to its first store, of 'serverAddress'
setStateData(data) ==
    /\ submission.pc = "idle"
    /\ state' = stateAfter(state, data, "serverAddress")
    /\ submission' = [pc |-> nextStore("serverAddress"), data |-> data]
    /\ UNCHANGED <<keychain, call, request, scheduled, callbacks, outcome>>

\* serverSettingsMenu: the form is submitted
onSubmit ==
    \E values \in FormValues : setStateData(values)

\* resetSettingsButton: the button is tapped
onTap == setStateData(EmptyObject)

\* setStateData resumes after an await and performs its next store
setStateDataStep ==
    /\ submission.pc # "idle"
    /\ state' = stateAfter(state, submission.data, submission.pc)
    /\ keychain' = keychainAfter(keychain, submission.data, submission.pc)
    /\ submission' = IF nextStore(submission.pc) = "idle" THEN NoSubmission
                     ELSE [submission EXCEPT !.pc = nextStore(submission.pc)]
    /\ UNCHANGED <<call, request, scheduled, callbacks, outcome>>

(***************************************************************************)
(* The host's request manager and Kavita.ts: KavitaRequestInterceptor.      *)
(***************************************************************************)
NoCall == [op |-> "none", pc |-> "idle"]
NoRequest == [stage |-> "none"]
NoOutcome == [kind |-> "none"]

\* the value null, which no string equals: a string is a tuple of characters
null == <<"null">>

\* no adapter operation is running: the host may invoke one
hostMayCall == call.pc = "idle"

\* the host takes the result of the finished call
hostTakesResult ==
    /\ call.pc = "done"
    /\ call' = NoCall
    /\ outcome' = NoOutcome
    /\ callbacks' = <<>>
    /\ scheduled' = 0
    /\ UNCHANGED <<state, keychain, submission, request>>

\* requestManager.schedule(req, 1): the request is handed to the manager;
\* before is the number of requests the call has scheduled so far
schedule(req, before) ==
    /\ request' = [stage |-> "scheduled", req |-> req]
    /\ scheduled' = before + 1

\* the call ends without scheduling a (further) request
noSchedule(before) ==
    /\ request' = NoRequest
    /\ scheduled' = before

\* interceptRequest: the request as the interceptor returns it
\* an interceptor that sets the stored header on every request
interceptRequestOverwriting(req, kc) ==
    LET withHeaders == IF "headers" \in DOMAIN req THEN req
                       ELSE storeKey(req, "headers", EmptyObject)
    IN  [withHeaders EXCEPT
            !.headers = storeKey(@, "authorization", getAuthorizationString(kc))]

interceptRequest(req, kc) ==
    LET withHeaders == IF "headers" \in DOMAIN req THEN req
                       ELSE storeKey(req, "headers", EmptyObject)
    IN  IF "authorization" \notin DOMAIN withHeaders.headers
        THEN [withHeaders EXCEPT
                !.headers = storeKey(@, "authorization", getAuthorizationString(kc))]
        ELSE withHeaders

\* the request manager runs the interceptor on a scheduled request and sends it
intercept ==
    /\ request.stage = "scheduled"
    /\ request' = [stage |-> "sent", req |-> interceptRequest(request.req, keychain)]
    /\ UNCHANGED <<state, keychain, submission, call, scheduled, callbacks, outcome>>

\* a response body JSON.parse throws on (or one without the fields read)
Unparsable == [unparsable |-> TRUE]

\* a response body that parses to value
body(value) == [value |-> value]

parses(data) == "value" \in DOMAIN data

\* the promise of schedule rejects: the server is unreachable or timed out
Rejected == [kind |-> "reject", message |-> "AsyncOperationTimedOutError"]

resolved(status, data) == [kind |-> "resolve", status |-> status, data |-> data]

\* all sequences over S of length at most n
RECURSIVE SeqUpTo(_, _)
SeqUpTo(S, n) ==
    IF n = 0 THEN {<<>>}
    ELSE SeqUpTo(S, n - 1) \cup {Append(s, x) : s \in {q \in SeqUpTo(S, n - 1) : Len(q) = n - 1}, x \in S}

returned(value) == [kind |-> "returned", value |-> value]
raised(error) == [kind |-> "raised", error |-> error]

(***************************************************************************)
(* Common.ts: searchRequest (Kavita.getSearchResults).                     *)
(***************************************************************************)
PAGE_SIZE == 40

getServerUnavailableMangaTiles ==
    << [id |-> "placeholder-id", title |-> "Server", image |-> "",
        subtitleText |-> "unavailable"] >>

\* createPagedResults: metadata undefined is an absent key
createPagedResults(results, hasMetadata, nextPage) ==
    IF hasMetadata THEN [results |-> results, metadata |-> [page |-> nextPage]]
    ELSE [results |-> results]

\* metadata?.page ?? 0
pageOf(metadata) == orDefault(metadata, "page", 0)

\* the four ifs of the forEach body, for one tag
\* a tagParams whose library branch strips one character too few
tagParamsShortStrip(tag) ==
    (IF substr0(tag.id, 4) = <<"t","a","g","-">>
     THEN << <<"t","a","g","=">> \o encodeURIComponent(substring(tag.id, 4)) >>
     ELSE <<>>)
    \o
    (IF substr0(tag.id, 6) = <<"g","e","n","r","e","-">>
     THEN << <<"g","e","n","r","e","=">> \o encodeURIComponent(substring(tag.id, 6)) >>
     ELSE <<>>)
    \o
    (IF substr0(tag.id, 11) = <<"c","o","l","l","e","c","t","i","o","n","-">>
     THEN << <<"c","o","l","l","e","c","t","i","o","n","_","i","d","=">>
             \o encodeURIComponent(substring(tag.id, 11)) >>
     ELSE <<>>)
    \o
    (IF substr0(tag.id, 8) = <<"l","i","b","r","a","r","y","-">>
     THEN << <<"l","i","b","r","a","r","y","_","i","d","=">>
             \o encodeURIComponent(substring(tag.id, 7)) >>
     ELSE <<>>)

tagParams(tag) ==
    (IF substr0(tag.id, 4) = <<"t","a","g","-">>
     THEN << <<"t","a","g","=">> \o encodeURIComponent(substring(tag.id, 4)) >>
     ELSE <<>>)
    \o
    (IF substr0(tag.id, 6) = <<"g","e","n","r","e","-">>
     THEN << <<"g","e","n","r","e","=">> \o encodeURIComponent(substring(tag.id, 6)) >>
     ELSE <<>>)
    \o
    (IF substr0(tag.id, 11) = <<"c","o","l","l","e","c","t","i","o","n","-">>
     THEN << <<"c","o","l","l","e","c","t","i","o","n","_","i","d","=">>
             \o encodeURIComponent(substring(tag.id, 11)) >>
     ELSE <<>>)
    \o
    (IF substr0(tag.id, 8) = <<"l","i","b","r","a","r","y","-">>
     THEN << <<"l","i","b","r","a","r","y","_","i","d","=">>
             \o encodeURIComponent(substring(tag.id, 8)) >>
     ELSE <<>>)

RECURSIVE includedTagsParams(_)
includedTagsParams(tags) ==
    IF Len(tags) = 0 THEN <<>>
    ELSE tagParams(tags[1]) \o includedTagsParams(Tail(tags))

\* paramsList as searchRequest builds it
paramsListOf(searchQuery, page, page_size) ==
    << <<"p","a","g","e","=">> \o numberToString(page),
       <<"s","i","z","e","=">> \o numberToString(page_size) >>
    \o
    (IF "title" \in DOMAIN searchQuery /\ searchQuery.title # <<>>
     THEN << <<"s","e","a","r","c","h","=">> \o encodeURIComponent(searchQuery.title) >>
     ELSE <<>>)
    \o
    (IF "includedTags" \in DOMAIN searchQuery
     THEN includedTagsParams(searchQuery.includedTags)
     ELSE <<>>)

paramsStringOf(paramsList) ==
    IF Len(paramsList) > 0 THEN <<"?">> \o join(paramsList, <<"&">>) ELSE <<>>

\* one tile per serie of result.content
RECURSIVE seriesTiles(_, _)
seriesTiles(content, kavitaAPI) ==
    IF Len(content) = 0 THEN <<>>
    ELSE << [id |-> content[1].id, title |-> content[1].metadata.title,
             image |-> [base |-> kavitaAPI, path |-> "/series/{id}/thumbnail",
                        id |-> content[1].id]] >>
         \o seriesTiles(Tail(content), kavitaAPI)

\* the tail of searchRequest and of getViewMoreItems: tiles and continuation
\* a listing that always carries a continuation
pagedTilesEndless(content, kavitaAPI, page) ==
    createPagedResults(seriesTiles(content, kavitaAPI), TRUE, page + 1)

pagedTiles(content, kavitaAPI, page) ==
    LET tiles == seriesTiles(content, kavitaAPI)
    IN  createPagedResults(tiles, Len(tiles) # 0, page + 1)

\* searchRequest up to its await of requestManager.schedule
searchRequest(searchQuery, metadata) ==
    LET kavitaAPI == getKavitaAPI(state)
        page == pageOf(metadata)
        paramsList == paramsListOf(searchQuery, page, PAGE_SIZE)
    IN  /\ hostMayCall
        /\ callbacks' = <<>>
        /\ IF kavitaAPI = null
           THEN /\ call' = [op |-> "searchRequest", pc |-> "done",
                            searchQuery |-> searchQuery, metadata |-> metadata,
                            page |-> page]
                /\ outcome' = returned(createPagedResults(getServerUnavailableMangaTiles, FALSE, 0))
                /\ noSchedule(0)
           ELSE /\ call' = [op |-> "searchRequest", pc |-> "awaiting",
                            kavitaAPI |-> kavitaAPI, searchQuery |-> searchQuery,
                            metadata |-> metadata, page |-> page]
                /\ outcome' = NoOutcome
                /\ schedule([url |-> [base |-> kavitaAPI, path |-> "/Series"],
                             method |-> "GET",
                             param |-> paramsStringOf(paramsList)], 0)
        /\ UNCHANGED <<state, keychain, submission>>

\* a searchRequest without its catch
searchRequestResultUncaught(response, kavitaAPI, page) ==
    IF response.kind = "reject" THEN raised(response.message)
    ELSE IF ~parses(response.data) THEN raised("SyntaxError")
    ELSE returned(pagedTiles(response.data.value.content, kavitaAPI, page))

\* what searchRequest does with the settled promise of schedule: the catch,
\* the parse, the tiles
searchRequestResult(response, kavitaAPI, page) ==
    IF response.kind = "reject"
    THEN returned(createPagedResults(getServerUnavailableMangaTiles, FALSE, 0))
    ELSE IF ~parses(response.data) THEN raised("SyntaxError")
    ELSE returned(pagedTiles(response.data.value.content, kavitaAPI, page))

\* searchRequest after the await
searchRequestResume(response) ==
    /\ call.op = "searchRequest" /\ call.pc = "awaiting"
    /\ request.stage = "sent"
    /\ request' = NoRequest
    /\ call' = [call EXCEPT !.pc = "done"] @@ [response |-> response]
    /\ outcome' = searchRequestResult(response, call.kavitaAPI, call.page)
    /\ UNCHANGED <<state, keychain, submission, scheduled, callbacks>>

(***************************************************************************)
(* Kavita.ts: getTags.                                                     *)
(***************************************************************************)
\* String.prototype.toUpperCase for one character
toUpperCase(c) ==
    IF 97 <= charCode(c) /\ charCode(c) <= 122
    THEN PrintableLow[charCode(c) - 32 - 31]
    ELSE c

\* tag.replace(/^\w/, (c) => c.toUpperCase())
capitalize(tag) ==
    IF Len(tag) > 0 /\ (isAlphaNum(tag[1]) \/ tag[1] = "_")
    THEN <<toUpperCase(tag[1])>> \o Tail(tag)
    ELSE tag

RECURSIVE libraryTags(_)
libraryTags(libraryResult) ==
    IF Len(libraryResult) = 0 THEN <<>>
    ELSE << [id |-> <<"l","i","b","r","a","r","y","-">> \o libraryResult[1].id,
             label |-> capitalize(libraryResult[1].name)] >>
         \o libraryTags(Tail(libraryResult))

\* getTags up to its await of requestManager.schedule, inside the try
getTags ==
    LET kavitaAPI == getKavitaAPI(state)
    IN  /\ hostMayCall
        /\ callbacks' = <<>>
        /\ call' = [op |-> "getTags", pc |-> "awaiting", kavitaAPI |-> kavitaAPI]
        /\ outcome' = NoOutcome
        /\ schedule([url |-> [base |-> kavitaAPI, path |-> "/libraries/"],
                     method |-> "GET"], 0)
        /\ UNCHANGED <<state, keychain, submission>>

\* getTags after the await: the catch, then the part outside the try
getTagsResume(response) ==
    /\ call.op = "getTags" /\ call.pc = "awaiting"
    /\ request.stage = "sent"
    /\ request' = NoRequest
    /\ call' = [call EXCEPT !.pc = "done"] @@ [response |-> response]
    /\ outcome' =
         IF response.kind = "reject"
         THEN returned(<< [id |-> "-1", label |-> "Server unavailable", tags |-> <<>>] >>)
         ELSE IF ~parses(response.data) THEN raised("SyntaxError")
         ELSE returned(<< [id |-> "0", label |-> "libraries",
                           tags |-> libraryTags(response.data.value)] >>)
    /\ UNCHANGED <<state, keychain, submission, scheduled, callbacks>>

(***************************************************************************)
(* Kavita.ts: getChapterDetails.                                           *)
(***************************************************************************)
\* a list of supported types that lacks image/webp
SUPPORTED_IMAGE_TYPES_WithoutWebp ==
    <<"image/jpeg", "image/png", "image/gif", "application/pdf">>

SUPPORTED_IMAGE_TYPES ==
    <<"image/jpeg", "image/png", "image/gif", "image/webp", "application/pdf">>

\* Array.prototype.includes on an array of strings, for a string
includesString(array, x) == \E i \in 1..Len(array) : array[i] = x

\* the loop of getChapterDetails over the page descriptors
RECURSIVE chapterPages(_, _, _)
chapterPages(result, kavitaAPI, chapterId) ==
    IF Len(result) = 0 THEN <<>>
    ELSE (IF includesString(SUPPORTED_IMAGE_TYPES, result[1].mediaType)
          THEN << [base |-> kavitaAPI, path |-> "/Reader/image?chapterID={id}/pages/{n}",
                   id |-> chapterId, number |-> result[1].number] >>
          ELSE <<>>)
         \o chapterPages(Tail(result), kavitaAPI, chapterId)

getChapterDetails(mangaId, chapterId) ==
    LET kavitaAPI == getKavitaAPI(state)
    IN  /\ hostMayCall
        /\ callbacks' = <<>>
        /\ call' = [op |-> "getChapterDetails", pc |-> "awaiting", kavitaAPI |-> kavitaAPI,
                    mangaId |-> mangaId, chapterId |-> chapterId]
        /\ outcome' = NoOutcome
        /\ schedule([url |-> [base |-> kavitaAPI, path |-> "/Series/chapter?chapterID={id}",
                              id |-> chapterId],
                     method |-> "GET"], 0)
        /\ UNCHANGED <<state, keychain, submission>>

getChapterDetailsResume(response) ==
    /\ call.op = "getChapterDetails" /\ call.pc = "awaiting"
    /\ request.stage = "sent"
    /\ request' = NoRequest
    /\ call' = [call EXCEPT !.pc = "done"] @@ [response |-> response]
    /\ outcome' =
         IF response.kind = "reject" THEN raised(response.message)
         ELSE IF ~parses(response.data) THEN raised("SyntaxError")
         ELSE returned([id |-> call.chapterId, longStrip |-> FALSE, mangaId |-> call.mangaId,
                        pages |-> chapterPages(response.data.value, call.kavitaAPI,
                                               call.chapterId)])
    /\ UNCHANGED <<state, keychain, submission, scheduled, callbacks>>

(***************************************************************************)
(* Kavita.ts: getHomePageSections and getViewMoreItems.                    *)
(***************************************************************************)
\* the sections array: 'ondeck' when the option is on
homeSections(showOnDeck) ==
    IF showOnDeck THEN << [id |-> "ondeck", title |-> "On Deck", view_more |-> TRUE] >>
    ELSE <<>>

\* the request of the switch in the loop, for the section 'ondeck'
sectionRequest(section, kavitaAPI) ==
    IF section.id = "ondeck"
    THEN [url |-> [base |-> kavitaAPI, path |-> "/Series/on-deck/"],
          param |-> "?libraryId=0", method |-> "GET"]
    ELSE [url |-> [base |-> kavitaAPI, path |-> "/Series/{id}", id |-> section.id],
          param |-> "?page=0&size=20&deleted=false", method |-> "GET"]

\* the tiles the then-callback builds from result.content
RECURSIVE sectionTiles(_, _)
sectionTiles(content, kavitaAPI) ==
    IF Len(content) = 0 THEN <<>>
    ELSE << [id |-> content[1].id, title |-> content[1].name,
             image |-> [base |-> kavitaAPI, path |-> "/Image/series-cover?seriesId={id}",
                        id |-> content[1].id]] >>
         \o sectionTiles(Tail(content), kavitaAPI)

\* a getHomePageSections that does not hand over the empty section first
getHomePageSectionsWithoutPlaceholder ==
    LET kavitaAPI == getKavitaAPI(state)
        sections == homeSections(getOptions(state).showOnDeck)
    IN  /\ hostMayCall
        /\ callbacks' = <<>>
        /\ IF Len(sections) = 0
           THEN /\ call' = [op |-> "getHomePageSections", pc |-> "done",
                            kavitaAPI |-> kavitaAPI, sections |-> sections]
                /\ outcome' = returned("void")
                /\ noSchedule(0)
           ELSE /\ call' = [op |-> "getHomePageSections", pc |-> "awaiting",
                            kavitaAPI |-> kavitaAPI, sections |-> sections]
                /\ outcome' = NoOutcome
                /\ schedule(sectionRequest(sections[1], kavitaAPI), 0)
        /\ UNCHANGED <<state, keychain, submission>>

\* getHomePageSections up to await Promise.all(promises)
getHomePageSections ==
    LET kavitaAPI == getKavitaAPI(state)
        showOnDeck == getOptions(state).showOnDeck
        sections == homeSections(showOnDeck)
    IN  /\ hostMayCall
        /\ IF kavitaAPI = null
           THEN /\ call' = [op |-> "getHomePageSections", pc |-> "done"]
                /\ callbacks' = << [id |-> "unset", view_more |-> FALSE,
                                    items |-> getServerUnavailableMangaTiles] >>
                /\ outcome' = returned("void")
                /\ noSchedule(0)
           ELSE IF Len(sections) = 0
           THEN /\ call' = [op |-> "getHomePageSections", pc |-> "done",
                            kavitaAPI |-> kavitaAPI, sections |-> sections]
                /\ callbacks' = <<>>
                /\ outcome' = returned("void")
                /\ noSchedule(0)
           ELSE /\ call' = [op |-> "getHomePageSections", pc |-> "awaiting",
                            kavitaAPI |-> kavitaAPI, sections |-> sections]
                /\ callbacks' = << sections[1] >>
                /\ outcome' = NoOutcome
                /\ schedule(sectionRequest(sections[1], kavitaAPI), 0)
        /\ UNCHANGED <<state, keychain, submission>>

\* how await Promise.all(promises) ends when the section's promise settles: a
\* rejection, or an exception of the then-callback, rejects Promise.all
getHomePageSectionsResult(response) ==
    IF response.kind = "reject" THEN raised(response.message)
    ELSE IF ~parses(response.data) THEN raised("SyntaxError")
    ELSE returned("void")

\* the section's promise settles: its then-callback runs, or Promise.all rejects
getHomePageSectionsResume(response) ==
    /\ call.op = "getHomePageSections" /\ call.pc = "awaiting"
    /\ request.stage = "sent"
    /\ request' = NoRequest
    /\ call' = [call EXCEPT !.pc = "done"] @@ [response |-> response]
    /\ outcome' = getHomePageSectionsResult(response)
    /\ callbacks' =
         IF response.kind = "resolve" /\ parses(response.data)
         THEN Append(callbacks,
                     call.sections[1] @@
                     [items |-> sectionTiles(response.data.value.content, call.kavitaAPI)])
         ELSE callbacks
    /\ UNCHANGED <<state, keychain, submission, scheduled>>

\* the template `?page=${page}&size=${PAGE_SIZE}&deleted=false`
pageParam(page) ==
    <<"?","p","a","g","e","=">> \o numberToString(page)
    \o <<"&","s","i","z","e","=">> \o numberToString(PAGE_SIZE)
    \o <<"&","d","e","l","e","t","e","d","=","f","a","l","s","e">>

getViewMoreItems(homepageSectionId, metadata) ==
    LET kavitaAPI == getKavitaAPI(state)
        page == pageOf(metadata)
    IN  /\ hostMayCall
        /\ callbacks' = <<>>
        /\ call' = [op |-> "getViewMoreItems", pc |-> "awaiting", kavitaAPI |-> kavitaAPI,
                    metadata |-> metadata, page |-> page]
        /\ outcome' = NoOutcome
        /\ schedule([url |-> [base |-> kavitaAPI, path |-> "/series/{id}",
                              id |-> homepageSectionId],
                     param |-> pageParam(page),
                     method |-> "GET"], 0)
        /\ UNCHANGED <<state, keychain, submission>>

getViewMoreItemsResume(response) ==
    /\ call.op = "getViewMoreItems" /\ call.pc = "awaiting"
    /\ request.stage = "sent"
    /\ request' = NoRequest
    /\ call' = [call EXCEPT !.pc = "done"] @@ [response |-> response]
    /\ outcome' =
         IF response.kind = "reject" THEN raised(response.message)
         ELSE IF ~parses(response.data) THEN raised("SyntaxError")
         ELSE returned(pagedTiles(response.data.value.content, call.kavitaAPI, call.page))
    /\ UNCHANGED <<state, keychain, submission, scheduled, callbacks>>

(***************************************************************************)
(* Kavita.ts: filterUpdatedManga.                                          *)
(***************************************************************************)
\* the time value of an Invalid Date
NaN == -1

\* a lastModified string that new Date cannot parse
InvalidDateString == 0

\* new Date(lastModified): its time value
newDate(lastModified) == IF lastModified = InvalidDateString THEN NaN ELSE lastModified

\* a >= b on two Dates: false when either time value is NaN
dateGE(a, b) == a # NaN /\ b # NaN /\ a >= b

\* SameValueZero of a string and an object, each tagged with its type: values
\* of different types are never the same value
sameValueZero(string, object) == [string |-> string] = [object |-> object]

\* ids.includes(serie): serie is the entry object, ids holds strings
idsIncludes(ids, serie) == \E i \in 1..Len(ids) : sameValueZero(ids[i], serie)

\* a loop without its else branch: an older entry is skipped, loadMore stays
RECURSIVE scanContentWithoutBreak(_, _, _, _, _)
scanContentWithoutBreak(content, i, time, ids, acc) ==
    IF i > Len(content) THEN acc
    ELSE LET serie == content[i]
             serieUpdated == newDate(serie.metadata.lastModified)
         IN  scanContentWithoutBreak(content, i + 1, time, ids,
                 [acc EXCEPT !.looked = @ + 1,
                             !.foundIds = IF dateGE(serieUpdated, time)
                                             /\ idsIncludes(ids, serie)
                                          THEN Append(@, serie) ELSE @])

\* the for loop over result.content from entry i on; acc holds foundIds,
\* loadMore and looked, the number of entries the loop has examined
RECURSIVE scanContent(_, _, _, _, _)
scanContent(content, i, time, ids, acc) ==
    IF i > Len(content) THEN acc
    ELSE LET serie == content[i]
             serieUpdated == newDate(serie.metadata.lastModified)
         IN  IF dateGE(serieUpdated, time)
             THEN scanContent(content, i + 1, time, ids,
                              [acc EXCEPT !.looked = @ + 1,
                                          !.foundIds = IF idsIncludes(ids, serie)
                                                       THEN Append(@, serie) ELSE @])
             ELSE [acc EXCEPT !.looked = @ + 1, !.loadMore = FALSE]

\* the request of one turn of the while loop
updatedRequest(kavitaAPI, page) ==
    [url |-> [base |-> kavitaAPI, path |-> "/series/updated/"],
     param |-> pageParam(page),
     method |-> "GET"]

\* filterUpdatedManga up to the first await of requestManager.schedule
filterUpdatedManga(time, ids) ==
    LET kavitaAPI == getKavitaAPI(state)
    IN  /\ hostMayCall
        /\ callbacks' = <<>>
        /\ call' = [op |-> "filterUpdatedManga", pc |-> "awaiting", kavitaAPI |-> kavitaAPI,
                    time |-> time, ids |-> ids, page |-> 0, foundIds |-> <<>>,
                    loadMore |-> TRUE, looked |-> 0, examined |-> <<>>,
                    response |-> Rejected]
        /\ outcome' = NoOutcome
        /\ schedule(updatedRequest(kavitaAPI, 0), 0)
        /\ UNCHANGED <<state, keychain, submission>>

\* one turn of the while loop after its await: the scan of the page, the
\* callback, and the next turn's request when loadMore is still true
filterUpdatedMangaResume(response) ==
    /\ call.op = "filterUpdatedManga" /\ call.pc = "awaiting"
    /\ request.stage = "sent"
    /\ IF response.kind = "reject" \/ ~parses(response.data)
       THEN /\ call' = [call EXCEPT !.pc = "done", !.response = response, !.looked = 0]
            /\ outcome' = raised(IF response.kind = "reject" THEN response.message
                                 ELSE "SyntaxError")
            /\ callbacks' = callbacks
            /\ noSchedule(scheduled)
       ELSE LET content == response.data.value.content
                scan == scanContent(content, 1, call.time, call.ids,
                                    [foundIds |-> call.foundIds, loadMore |-> TRUE,
                                     looked |-> 0])
                loadMore == scan.loadMore /\ Len(content) # 0
                page == call.page + 1
            IN  /\ call' = [call EXCEPT !.pc = IF loadMore THEN "awaiting" ELSE "done",
                                        !.response = response,
                                        !.page = page,
                                        !.foundIds = scan.foundIds,
                                        !.loadMore = loadMore,
                                        !.looked = scan.looked,
                                        !.examined = @ \o SubSeq(content, 1, scan.looked)]
                /\ callbacks' = IF Len(scan.foundIds) > 0
                                THEN Append(callbacks, [ids |-> scan.foundIds])
                                ELSE callbacks
                /\ IF loadMore
                   THEN /\ schedule(updatedRequest(call.kavitaAPI, page), scheduled)
                        /\ outcome' = NoOutcome
                   ELSE /\ noSchedule(scheduled)
                        /\ outcome' = returned("void")
    /\ UNCHANGED <<state, keychain, submission>>

(***************************************************************************)
(* Kavita.ts: getMangaDetails and getChapters.                             *)
(***************************************************************************)
\* parseMangaStatus: every status but 'ENDED' reads as ongoing
parseMangaStatus(kavitaStatus) ==
    IF kavitaStatus = "ENDED" THEN "COMPLETED" ELSE "ONGOING"

\* createManga of the parsed serie
mangaOf(result, kavitaAPI, mangaId) ==
    [id |-> mangaId,
     titles |-> <<result.metadata.title>>,
     image |-> [base |-> kavitaAPI, path |-> "/Image/series-covver?seriesID={id}/",
                id |-> mangaId],
     status |-> parseMangaStatus(result.metadata.status),
     langFlag |-> result.metadata.language,
     desc |-> IF result.metadata.summary # "" THEN result.metadata.summary
              ELSE result.chaptersMetadata.summary,
     lastUpdate |-> result.metadata.lastModified]

\* getMangaDetails up to its await of requestManager.schedule
getMangaDetails(mangaId) ==
    LET kavitaAPI == getKavitaAPI(state)
    IN  /\ hostMayCall
        /\ callbacks' = <<>>
        /\ call' = [op |-> "getMangaDetails", pc |-> "awaiting", kavitaAPI |-> kavitaAPI,
                    mangaId |-> mangaId]
        /\ outcome' = NoOutcome
        /\ schedule([url |-> [base |-> kavitaAPI, path |-> "/series/{id}/", id |-> mangaId],
                     method |-> "GET"], 0)
        /\ UNCHANGED <<state, keychain, submission>>

\* a getMangaDetails that answers a failed request with a placeholder manga
getMangaDetailsResultCaught(response, kavitaAPI, mangaId) ==
    IF response.kind = "reject"
    THEN returned([id |-> mangaId, titles |-> <<"Server unavailable">>])
    ELSE IF ~parses(response.data) THEN raised("SyntaxError")
    ELSE returned(mangaOf(response.data.value, kavitaAPI, mangaId))

\* how getMangaDetails ends once the promise of schedule settles: no try
\* surrounds the await or JSON.parse
getMangaDetailsResult(response, kavitaAPI, mangaId) ==
    IF response.kind = "reject" THEN raised(response.message)
    ELSE IF ~parses(response.data) THEN raised("SyntaxError")
    ELSE returned(mangaOf(response.data.value, kavitaAPI, mangaId))

getMangaDetailsResume(response) ==
    /\ call.op = "getMangaDetails" /\ call.pc = "awaiting"
    /\ request.stage = "sent"
    /\ request' = NoRequest
    /\ call' = [call EXCEPT !.pc = "done"] @@ [response |-> response]
    /\ outcome' = getMangaDetailsResult(response, call.kavitaAPI, call.mangaId)
    /\ UNCHANGED <<state, keychain, submission, scheduled, callbacks>>

\* the digits a string starts with
RECURSIVE leadingDigits(_)
leadingDigits(s) ==
    IF Len(s) = 0 \/ ~(\E i \in 1..10 : Digits[i] = s[1]) THEN <<>>
    ELSE <<s[1]>> \o leadingDigits(Tail(s))

RECURSIVE digitsNumber(_)
digitsNumber(s) ==
    IF Len(s) = 0 THEN 0
    ELSE 10 * digitsNumber(SubSeq(s, 1, Len(s) - 1))
         + ((CHOOSE i \in 1..10 : Digits[i] = s[Len(s)]) - 1)

\* parseFloat of a chapter number without a fraction: the number its leading
\* digits spell, NaN when it starts with none
parseFloat(s) ==
    IF Len(leadingDigits(s)) = 0 THEN NaN ELSE digitsNumber(leadingDigits(s))

\* the loop of getChapters over chaptersResult.content.chapters
RECURSIVE chaptersOf(_, _)
chaptersOf(books, mangaId) ==
    IF Len(books) = 0 THEN <<>>
    ELSE << [id |-> books[1].id,
             mangaId |-> mangaId,
             chapNum |-> parseFloat(books[1].number),
             name |-> books[1].title,
             time |-> newDate(books[1].fileLastModified),
             sortingIndex |-> books[1].metadata.number] >>
         \o chaptersOf(Tail(books), mangaId)

\* getChapters up to its await of requestManager.schedule
getChapters(mangaId) ==
    LET kavitaAPI == getKavitaAPI(state)
    IN  /\ hostMayCall
        /\ callbacks' = <<>>
        /\ call' = [op |-> "getChapters", pc |-> "awaiting", kavitaAPI |-> kavitaAPI,
                    mangaId |-> mangaId]
        /\ outcome' = NoOutcome
        /\ schedule([url |-> [base |-> kavitaAPI,
                              path |-> "/Series/series-detail?seriesId=/{id}",
                              id |-> mangaId],
                     param |-> <<>>, method |-> "GET"], 0)
        /\ UNCHANGED <<state, keychain, submission>>

getChaptersResume(response) ==
    /\ call.op = "getChapters" /\ call.pc = "awaiting"
    /\ request.stage = "sent"
    /\ request' = NoRequest
    /\ call' = [call EXCEPT !.pc = "done"] @@ [response |-> response]
    /\ outcome' =
         IF response.kind = "reject" THEN raised(response.message)
         ELSE IF ~parses(response.data) THEN raised("SyntaxError")
         ELSE returned(chaptersOf(response.data.value.content.chapters, call.mangaId))
    /\ UNCHANGED <<state, keychain, submission, scheduled, callbacks>>

(***************************************************************************)
(* Settings.ts: testServerSettings.                                        *)
(***************************************************************************)
testServerSettings ==
    LET kavitaAPI == getKavitaAPI(state)
        authorization == getAuthorizationString(keychain)
    IN  /\ hostMayCall
        /\ callbacks' = <<>>
        /\ IF kavitaAPI = null \/ authorization = null
           THEN /\ call' = [op |-> "testServerSettings", pc |-> "done"]
                /\ outcome' = returned("Impossible: Unset credentials in server settings")
                /\ noSchedule(0)
           ELSE /\ call' = [op |-> "testServerSettings", pc |-> "awaiting",
                            kavitaAPI |-> kavitaAPI]
                /\ outcome' = NoOutcome
                /\ schedule([url |-> [base |-> kavitaAPI, path |-> "/api/Library"],
                             method |-> "GET", incognito |-> TRUE,
                             headers |-> [authorization |-> authorization]], 0)
        /\ UNCHANGED <<state, keychain, submission>>

\* a switch without the case for 401
statusMessageWithout401(responseStatus) ==
    CASE responseStatus = 200 -> <<"Successful connection!">>
      [] OTHER -> <<"Error ", responseStatus>>

\* the message of the switch on the response status
statusMessage(responseStatus) ==
    CASE responseStatus = 200 -> <<"Successful connection!">>
      [] responseStatus = 401 -> <<"Error 401 Unauthorized: Invalid credentials">>
      [] OTHER -> <<"Error ", responseStatus>>

testServerSettingsResume(response) ==
    /\ call.op = "testServerSettings" /\ call.pc = "awaiting"
    /\ request.stage = "sent"
    /\ request' = NoRequest
    /\ call' = [call EXCEPT !.pc = "done"] @@ [response |-> response]
    /\ outcome' =
         IF response.kind = "reject"
         THEN returned(<<"Failed: Could not connect to server - ", response.message>>)
         ELSE returned(statusMessage(response.status))
    /\ UNCHANGED <<state, keychain, submission, scheduled, callbacks>>

(***************************************************************************)
(* The inputs of the host and the answers of the server.                   *)
(***************************************************************************)
\* a serie of a listing, as the server describes it
serie(id, lastModified) ==
    [id |-> id, name |-> id, metadata |-> [title |-> id, lastModified |-> lastModified]]

\* the content array of a listing that holds n series
listing(n) == [i \in 1..n |-> IF i % 2 = 1 THEN serie("a", 3) ELSE serie("b", 1)]

\* the entries the update feed can hold: modified at 3 or at 1, around a
\* threshold of 2 or 3, and one entry whose date does not parse
FeedSeries == { serie("a", 3), serie("a", 1), serie("b", 1),
                serie("c", InvalidDateString) }

\* the thresholds and candidate lists of an update poll
PollTimes == {2, 3}
PollIds == { <<"a", "b">>, <<"b">> }

\* the answers to one request: a rejection, an unparsable body, or a body
\* holding value, for each value of values
answers(values) ==
    {Rejected, resolved(200, Unparsable)} \cup {resolved(200, body(v)) : v \in values}

ListingAnswers == answers({[content |-> listing(n)] : n \in 0..MaxContent})

\* the contents of one page of the update feed
FeedContents == SeqUpTo(FeedSeries, MaxContent)

\* the answers of the update feed to the request for a page, its pages drawn
\* from contents: past MaxFeedPages pages the feed has ended and the page is
\* empty
FeedAnswers(page, contents) ==
    IF page >= MaxFeedPages THEN answers({[content |-> <<>>]})
    ELSE answers({[content |-> c] : c \in contents})

Libraries == { [id |-> <<"1">>, name |-> <<"s","c","i"," ","f","i">>],
               [id |-> <<"2">>, name |-> <<"A","c","t">>] }

LibraryAnswers == answers(SeqUpTo(Libraries, 1))

MediaTypes == {"image/jpeg", "image/png", "image/gif", "image/webp", "application/pdf",
               "application/x-unknown"}

\* the page descriptors of a chapter: the n-th has number n - 1
pageList(mediaTypes) ==
    [n \in 1..Len(mediaTypes) |-> [number |-> n - 1, mediaType |-> mediaTypes[n]]]

ChapterAnswers == answers({pageList(m) : m \in SeqUpTo(MediaTypes, MaxChapterPages)})

\* the serie a server describes to getMangaDetails: with or without a summary
\* of its own
SerieDetails ==
    { [metadata |-> [title |-> "a", status |-> st, language |-> "en", summary |-> su,
                     lastModified |-> 3],
       chaptersMetadata |-> [summary |-> "of the chapters"]] :
      st \in {"ENDED", "HIATUS"}, su \in {"", "of the serie"} }

MangaAnswers == answers(SerieDetails)

\* the chapters a server lists to getChapters
Books ==
    { [id |-> "c1", number |-> n, title |-> "one", fileLastModified |-> d,
       metadata |-> [number |-> 1]] :
      n \in { <<"1","2">>, <<"x">> }, d \in {3, InvalidDateString} }

BookAnswers == answers({[content |-> [chapters |-> b]] : b \in SeqUpTo(Books, 1)})

StatusAnswers == {Rejected} \cup {resolved(s, Unparsable) : s \in {200, 401, 500}}

\* the tag ids of a search: one of each namespace, and one of none
TagIds == { <<"t","a","g","-","1">>,
            <<"g","e","n","r","e","-","a","&","b">>,
            <<"c","o","l","l","e","c","t","i","o","n","-","7">>,
            <<"l","i","b","r","a","r","y","-","2">>,
            <<"T","a","g">> }

Tags == { [id |-> i] : i \in TagIds }

Titles == { <<>>, <<"a"," ","b">> }

\* every search query within the bounds
SearchQueries ==
    LET tagLists == SeqUpTo(Tags, MaxTags)
    IN  {EmptyObject}
        \cup {[title |-> ti] : ti \in Titles}
        \cup {[includedTags |-> tl] : tl \in tagLists}
        \cup {[title |-> ti, includedTags |-> tl] : ti \in Titles, tl \in tagLists}

\* the metadata of a paged call: undefined, or a cursor
Cursors == {EmptyObject} \cup {[page |-> n] : n \in 0..MaxCursor}

\* the stores a finished setStateData leaves behind
storeAfter(data) ==
    [state |-> stateAfter(stateAfter(stateAfter(EmptyObject, data, "serverAddress"),
                                     data, "kavitaAPI"), data, "showOnDeck"),
     keychain |-> keychainAfter(keychainAfter(keychainAfter(EmptyObject, data,
                                     "serverUsername"), data, "serverPassword"),
                                     data, "authorization")]

\* the stores an adapter call can find: never written, or written by a
\* finished submission or reset
SettledStores ==
    {[state |-> EmptyObject, keychain |-> EmptyObject]}
    \cup {storeAfter(data) : data \in FormValues \cup {EmptyObject}}

Init ==
    /\ state = EmptyObject
    /\ keychain = EmptyObject
    /\ submission = NoSubmission
    /\ call = NoCall
    /\ request = NoRequest
    /\ scheduled = 0
    /\ callbacks = <<>>
    /\ outcome = NoOutcome

\* the settings menu: one submission or reset at a time, step by step
Settings ==
    \/ onSubmit
    \/ onTap
    \/ setStateDataStep

\* the host invokes an adapter operation with an input of the given sets
Invoke(queries, cursors) ==
    \/ \E q \in queries, m \in cursors : searchRequest(q, m)
    \/ getTags
    \/ getChapterDetails("m1", "c1")
    \/ getMangaDetails("m1")
    \/ getChapters("m1")
    \/ getHomePageSections
    \/ \E m \in cursors : getViewMoreItems("ondeck", m)
    \/ \E time \in PollTimes, ids \in PollIds : filterUpdatedManga(time, ids)
    \/ testServerSettings
    \/ hostTakesResult

\* the request manager: the interceptor runs, and the server answers with one
\* of the given answers
Network(listings, libraries, chapters, feed) ==
    \/ intercept
    \/ \E r \in listings : searchRequestResume(r)
    \/ \E r \in libraries : getTagsResume(r)
    \/ \E r \in chapters : getChapterDetailsResume(r)
    \/ \E r \in MangaAnswers : getMangaDetailsResume(r)
    \/ \E r \in BookAnswers : getChaptersResume(r)
    \/ \E r \in listings : getHomePageSectionsResume(r)
    \/ \E r \in listings : getViewMoreItemsResume(r)
    \/ /\ call.op = "filterUpdatedManga"
       /\ \E r \in FeedAnswers(call.page, feed) : filterUpdatedMangaResume(r)
    \/ \E r \in StatusAnswers : testServerSettingsResume(r)

\* one answer of each shape, for the runs beside the settings menu
FewListings == answers({[content |-> listing(n)] : n \in 0..1})
FewLibraries == answers({<<>>})
FewChapters == answers({pageList(<<"image/jpeg", "application/x-unknown">>)})
FewFeedContents == { <<>>, <<serie("a", 3)>>, <<serie("a", 3), serie("b", 1)>> }

\* the whole source: the settings menu runs beside the adapter operations
Next ==
    \/ Settings
    \/ Invoke({EmptyObject}, {EmptyObject})
    \/ Network(FewListings, FewLibraries, FewChapters, FewFeedContents)

Spec == Init /\ [][Next]_vars

\* the adapter operations alone, on a store no submission is writing
InitAdapter ==
    /\ \E s \in SettledStores : state = s.state /\ keychain = s.keychain
    /\ submission = NoSubmission
    /\ call = NoCall
    /\ request = NoRequest
    /\ scheduled = 0
    /\ callbacks = <<>>
    /\ outcome = NoOutcome

NextAdapter ==
    \/ Invoke(SearchQueries, Cursors)
    \/ Network(ListingAnswers, LibraryAnswers, ChapterAnswers, FeedContents)

SpecAdapter == InitAdapter /\ [][NextAdapter]_vars

(***************************************************************************)
(* setStateData alone, as an exported function: any data object whose keys *)
(* are among those it reads.                                               *)
(***************************************************************************)
StateData ==
    { a @@ u @@ p @@ d :
        a \in {EmptyObject} \cup {[serverAddress |-> s] : s \in ServerAddresses},
        u \in {EmptyObject, [serverUsername |-> <<"u">>]},
        p \in {EmptyObject, [serverPassword |-> <<"p">>], [serverPassword |-> <<"q">>]},
        d \in {EmptyObject, [showOnDeck |-> FALSE]} }

NextSettings ==
    \/ \E data \in StateData : setStateData(data)
    \/ setStateDataStep

SpecSettings == Init /\ [][NextSettings]_vars

(***************************************************************************)
(* filterUpdatedManga alone. The request manager runs the interceptor on   *)
(* every scheduled request, and every request settles: it is answered or   *)
(* it times out (requestTimeout).                                          *)
(***************************************************************************)
pollAnswer ==
    /\ call.op = "filterUpdatedManga"
    /\ \E r \in FeedAnswers(call.page, FeedContents) : filterUpdatedMangaResume(r)

NextPoll ==
    \/ \E time \in PollTimes, ids \in PollIds : filterUpdatedManga(time, ids)
    \/ hostTakesResult
    \/ intercept
    \/ pollAnswer

SpecPoll ==
    InitAdapter /\ [][NextPoll]_vars /\ WF_vars(intercept) /\ WF_vars(pollAnswer)

(***************************************************************************)
(* Reading a request and a result back, for the properties below.          *)
(***************************************************************************)
\* the request carries an authorization header
hasAuthorization(req) ==
    "headers" \in DOMAIN req /\ "authorization" \in DOMAIN req.headers

\* the index of the first c in s, or 0
indexOf(s, c) ==
    IF \E i \in 1..Len(s) : s[i] = c
    THEN CHOOSE i \in 1..Len(s) : s[i] = c /\ \A j \in 1..(i - 1) : s[j] # c
    ELSE 0

RECURSIVE split(_, _)
split(s, sep) ==
    IF indexOf(s, sep) = 0 THEN <<s>>
    ELSE <<SubSeq(s, 1, indexOf(s, sep) - 1)>>
         \o split(SubSeq(s, indexOf(s, sep) + 1, Len(s)), sep)

hexValue(c) == (CHOOSE i \in 1..16 : HexDigits[i] = c) - 1

charOfCode(n) == IF n <= 95 THEN PrintableLow[n - 31] ELSE PrintableHigh[n - 96]

\* what a server reads out of a percent-encoded value
RECURSIVE percentDecode(_)
percentDecode(s) ==
    IF Len(s) = 0 THEN <<>>
    ELSE IF s[1] = "%" /\ Len(s) >= 3
    THEN <<charOfCode(16 * hexValue(s[2]) + hexValue(s[3]))>>
         \o percentDecode(SubSeq(s, 4, Len(s)))
    ELSE <<s[1]>> \o percentDecode(Tail(s))

RECURSIVE digitsValue(_)
digitsValue(s) ==
    IF Len(s) = 0 THEN 0
    ELSE 10 * digitsValue(SubSeq(s, 1, Len(s) - 1))
         + ((CHOOSE i \in 1..10 : Digits[i] = s[Len(s)]) - 1)

\* the parameters a server reads out of a query string '?k=v&k=v'
queryParams(param) ==
    LET parts == split(Tail(param), "&")
    IN  [i \in 1..Len(parts) |->
            [key   |-> SubSeq(parts[i], 1, indexOf(parts[i], "=") - 1),
             value |-> percentDecode(SubSeq(parts[i], indexOf(parts[i], "=") + 1,
                                            Len(parts[i])))]]

\* the answer the finished or looping call last received held a body that parsed
answered ==
    /\ "response" \in DOMAIN call
    /\ call.response.kind = "resolve"
    /\ parses(call.response.data)

rejected ==
    /\ call.pc = "done"
    /\ "response" \in DOMAIN call
    /\ call.response.kind = "reject"

\* the cursor N of a paged call: an absent cursor is 0
cursorOf(metadata) == IF "page" \in DOMAIN metadata THEN metadata.page ELSE 0

\* the page the request in flight asks the server for
requestedPage ==
    LET params == queryParams(request.req.param)
        at == CHOOSE i \in 1..Len(params) : params[i].key = <<"p","a","g","e">>
    IN  digitsValue(params[at].value)

(***************************************************************************)
(* C1. interceptRequest leaves an authorization header the request carries *)
(* as it is, and gives a request without one the stored 'authorization'    *)
(* value, the empty string when none is stored.                            *)
(***************************************************************************)
C1_InterceptKeepsOrInjects ==
    [][ (request.stage = "scheduled" /\ request'.stage = "sent") =>
            /\ hasAuthorization(request'.req)
            /\ request'.req.headers.authorization =
                 IF hasAuthorization(request.req)
                 THEN request.req.headers.authorization
                 ELSE IF "authorization" \in DOMAIN keychain
                      THEN keychain.authorization
                      ELSE <<>> ]_vars

\* a request without a header went out with the header a submission stored
C1_Witness ==
    /\ request.stage = "sent"
    /\ call.op = "getTags"
    /\ "authorization" \in DOMAIN keychain
    /\ request.req.headers.authorization = keychain.authorization
    /\ Len(request.req.headers.authorization) > 0

(***************************************************************************)
(* C2. On a store in which nothing was ever saved, searchRequest, getTags  *)
(* and getHomePageSections return their 'server unavailable' result and    *)
(* schedule no request.                                                    *)
(***************************************************************************)
neverConfigured ==
    state = EmptyObject /\ keychain = EmptyObject /\ submission.pc = "idle"

C2_UnsetStoreSchedulesNothing ==
    (neverConfigured /\ call.op \in {"searchRequest", "getTags", "getHomePageSections"}) =>
        /\ scheduled = 0
        /\ request.stage = "none"
        /\ call.pc = "done"
        /\ outcome.kind = "returned"
        /\ CASE call.op = "searchRequest" ->
                    outcome.value.results = getServerUnavailableMangaTiles
             [] call.op = "getTags" ->
                    outcome.value[1].label = "Server unavailable"
             [] call.op = "getHomePageSections" ->
                    Len(callbacks) = 1 /\ callbacks[1].id = "unset"

(***************************************************************************)
(* C3. When the request of searchRequest rejects, searchRequest returns a  *)
(* paged result that holds the one 'server unavailable' tile and no        *)
(* continuation; it does not raise.                                        *)
(***************************************************************************)
isServerUnavailableTile(tile) ==
    /\ DOMAIN tile = {"id", "title", "image", "subtitleText"}
    /\ tile.id = "placeholder-id"
    /\ tile.title = "Server"
    /\ tile.subtitleText = "unavailable"

C3_SearchRejectionGivesSentinel ==
    (call.op = "searchRequest" /\ rejected) =>
        /\ outcome.kind = "returned"
        /\ Len(outcome.value.results) = 1
        /\ isServerUnavailableTile(outcome.value.results[1])
        /\ "metadata" \notin DOMAIN outcome.value

\* a search with a title, tags and a cursor whose request rejected
C3_Witness ==
    /\ call.op = "searchRequest" /\ rejected
    /\ call.page = 1
    /\ "title" \in DOMAIN call.searchQuery
    /\ "includedTags" \in DOMAIN call.searchQuery
    /\ Len(call.searchQuery.includedTags) = 2
    /\ outcome.kind = "returned"

(***************************************************************************)
(* C4. getHomePageSections never raises because of a transport failure:    *)
(* when the request of a section rejects, the call still returns.          *)
(***************************************************************************)
C4_HomeSectionsNeverRaise ==
    (call.op = "getHomePageSections" /\ rejected) => outcome.kind = "returned"

(***************************************************************************)
(* C5. searchRequest and getViewMoreItems ask the server for the page of   *)
(* the cursor N (0 when absent); on an empty content array the result has  *)
(* no continuation, on a non-empty one the continuation is page N + 1.     *)
(***************************************************************************)
pagedCall == call.op \in {"searchRequest", "getViewMoreItems"}

C5_ContinuationIsNextPageOrAbsent ==
    /\ (pagedCall /\ request.stage # "none") =>
            requestedPage = cursorOf(call.metadata)
    /\ (pagedCall /\ call.pc = "done" /\ answered) =>
            /\ outcome.kind = "returned"
            /\ Len(outcome.value.results) = Len(call.response.data.value.content)
            /\ IF Len(call.response.data.value.content) = 0
               THEN "metadata" \notin DOMAIN outcome.value
               ELSE /\ "metadata" \in DOMAIN outcome.value
                    /\ outcome.value.metadata = [page |-> cursorOf(call.metadata) + 1]

\* page 1 of a view-more listing held series: the continuation is page 2
C5_Witness ==
    /\ call.op = "getViewMoreItems" /\ call.pc = "done" /\ answered
    /\ call.metadata = [page |-> 1]
    /\ Len(call.response.data.value.content) > 0
    /\ outcome.value.metadata.page = 2

(***************************************************************************)
(* C6. On a newest-first feed, the IDs filterUpdatedManga reports through  *)
(* its callback are the IDs of the entries before the first entry older    *)
(* than the threshold that are at or after the threshold and in the        *)
(* candidate set.                                                          *)
(***************************************************************************)
modifiedAt(entry) == entry.metadata.lastModified

validDates(entries) ==
    \A i \in 1..Len(entries) : modifiedAt(entries[i]) # InvalidDateString

newestFirst(entries) ==
    \A i, j \in 1..Len(entries) : i < j => modifiedAt(entries[i]) >= modifiedAt(entries[j])

\* the index of the first entry older than time, or 0
firstOlder(entries, time) ==
    IF \E i \in 1..Len(entries) :
           modifiedAt(entries[i]) # InvalidDateString /\ modifiedAt(entries[i]) < time
    THEN CHOOSE i \in 1..Len(entries) :
           /\ modifiedAt(entries[i]) # InvalidDateString /\ modifiedAt(entries[i]) < time
           /\ \A j \in 1..(i - 1) :
                 modifiedAt(entries[j]) = InvalidDateString \/ modifiedAt(entries[j]) >= time
    ELSE 0

beforeFirstOlder(entries, time) ==
    IF firstOlder(entries, time) = 0 THEN entries
    ELSE SubSeq(entries, 1, firstOlder(entries, time) - 1)

\* the entries whose IDs the scan is to report
updatesDue(entries, time, ids) ==
    SelectSeq(beforeFirstOlder(entries, time),
              LAMBDA e : modifiedAt(e) >= time /\ \E i \in 1..Len(ids) : ids[i] = e.id)

\* what the last callback handed to the host: everything accumulated so far
reportedUpdates ==
    IF Len(callbacks) = 0 THEN <<>> ELSE callbacks[Len(callbacks)].ids

C6_ReportsExactlyTheUpdatedCandidates ==
    (/\ call.op = "filterUpdatedManga"
     /\ validDates(call.examined)
     /\ newestFirst(call.examined)) =>
        LET due == updatesDue(call.examined, call.time, call.ids)
        IN  /\ Len(reportedUpdates) = Len(due)
            /\ \A i \in 1..Len(due) : sameValueZero(due[i].id, reportedUpdates[i])

(***************************************************************************)
(* C7. filterUpdatedManga requests the pages 0, 1, 2, ... one at a time    *)
(* and stops at the first page that is empty or holds an entry older than  *)
(* the threshold: no later page is requested, no entry after the first     *)
(* older one is examined, and the call ends.                               *)
(***************************************************************************)
polling == call.op = "filterUpdatedManga"

lastPage == call.response.data.value.content

allAtOrAfter(entries, time) ==
    \A i \in 1..Len(entries) :
        modifiedAt(entries[i]) # InvalidDateString /\ modifiedAt(entries[i]) >= time

C7_PagesInOrder ==
    (polling /\ request.stage # "none") =>
        /\ call.pc = "awaiting"
        /\ requestedPage = scheduled - 1
        /\ call.page = scheduled - 1

C7_StopsAtFirstStoppingPage ==
    (polling /\ answered) =>
        /\ (Len(lastPage) = 0 \/ firstOlder(lastPage, call.time) # 0) =>
                /\ call.pc = "done"
                /\ outcome.kind = "returned"
                /\ request.stage = "none"
                /\ scheduled = call.page
        /\ (Len(lastPage) # 0 /\ allAtOrAfter(lastPage, call.time)) =>
                /\ call.pc = "awaiting"
                /\ request.stage # "none"
                /\ call.looked = Len(lastPage)
        /\ firstOlder(lastPage, call.time) # 0 =>
                call.looked <= firstOlder(lastPage, call.time)

C7_ScanStopsAndEnds ==
    /\ [](C7_PagesInOrder /\ C7_StopsAtFirstStoppingPage)
    /\ (polling /\ call.pc = "awaiting") ~> (polling /\ call.pc = "done")

\* the scan went over a full page and stopped at the first entry of the next
C7_Witness ==
    /\ polling /\ answered /\ call.pc = "done"
    /\ call.page = 2
    /\ scheduled = 2
    /\ Len(lastPage) = 2
    /\ firstOlder(lastPage, call.time) = 1
    /\ call.looked = 1

(***************************************************************************)
(* C8. The filter parameters of the query string searchRequest builds are, *)
(* in tag order, one per tag whose id starts with 'tag-', 'genre-',        *)
(* 'collection-' or 'library-', keyed tag, genre, collection_id and        *)
(* library_id, the value being the id without its prefix; any other tag    *)
(* gives no parameter and no error.                                        *)
(***************************************************************************)
Namespaces ==
    << [prefix |-> <<"t","a","g","-">>, key |-> <<"t","a","g">>],
       [prefix |-> <<"g","e","n","r","e","-">>, key |-> <<"g","e","n","r","e">>],
       [prefix |-> <<"c","o","l","l","e","c","t","i","o","n","-">>,
        key |-> <<"c","o","l","l","e","c","t","i","o","n","_","i","d">>],
       [prefix |-> <<"l","i","b","r","a","r","y","-">>,
        key |-> <<"l","i","b","r","a","r","y","_","i","d">>] >>

startsWith(s, prefix) ==
    Len(s) >= Len(prefix) /\ SubSeq(s, 1, Len(prefix)) = prefix

RECURSIVE filtersDue(_)
filtersDue(tags) ==
    IF Len(tags) = 0 THEN <<>>
    ELSE (IF \E n \in 1..Len(Namespaces) : startsWith(tags[1].id, Namespaces[n].prefix)
          THEN LET n == CHOOSE n \in 1..Len(Namespaces) :
                            startsWith(tags[1].id, Namespaces[n].prefix)
               IN  << [key |-> Namespaces[n].key,
                       value |-> SubSeq(tags[1].id, Len(Namespaces[n].prefix) + 1,
                                        Len(tags[1].id))] >>
          ELSE <<>>)
         \o filtersDue(Tail(tags))

\* the parameters of the query string other than page, size and search
filterParams(param) ==
    SelectSeq(queryParams(param),
              LAMBDA q : q.key \notin { <<"p","a","g","e">>, <<"s","i","z","e">>,
                                        <<"s","e","a","r","c","h">> })

C8_TagFiltersByNamespace ==
    (call.op = "searchRequest") =>
        /\ call.pc = "awaiting" => request.stage # "none"
        /\ request.stage # "none" =>
             filterParams(request.req.param) =
                filtersDue(IF "includedTags" \in DOMAIN call.searchQuery
                           THEN call.searchQuery.includedTags ELSE <<>>)

\* a genre tag whose value needs encoding, and a tag of no namespace
C8_Witness ==
    /\ call.op = "searchRequest" /\ request.stage = "sent"
    /\ "includedTags" \in DOMAIN call.searchQuery
    /\ call.searchQuery.includedTags =
          << [id |-> <<"T","a","g">>],
             [id |-> <<"g","e","n","r","e","-","a","&","b">>] >>
    /\ filterParams(request.req.param) =
          << [key |-> <<"g","e","n","r","e">>, value |-> <<"a","&","b">>] >>

(***************************************************************************)
(* C9. The page URLs of getChapterDetails are, in the server's order, the  *)
(* URLs of the pages whose media type is image/jpeg, image/png, image/gif, *)
(* image/webp or application/pdf; every other page is dropped.             *)
(***************************************************************************)
SupportedMediaTypes ==
    {"image/jpeg", "image/png", "image/gif", "image/webp", "application/pdf"}

pagesKept(result) == SelectSeq(result, LAMBDA pg : pg.mediaType \in SupportedMediaTypes)

C9_PagesAreTheSupportedOnesInOrder ==
    (call.op = "getChapterDetails" /\ call.pc = "done" /\ answered) =>
        LET kept == pagesKept(call.response.data.value)
        IN  /\ outcome.kind = "returned"
            /\ Len(outcome.value.pages) = Len(kept)
            /\ \A i \in 1..Len(kept) :
                  /\ outcome.value.pages[i].number = kept[i].number
                  /\ outcome.value.pages[i].id = call.chapterId
                  /\ outcome.value.pages[i].base = call.kavitaAPI

\* [jpeg, png, application/x-unknown, webp] gives the pages 0, 1 and 3
C9_Witness ==
    /\ call.op = "getChapterDetails" /\ call.pc = "done" /\ answered
    /\ call.response.data.value =
          pageList(<<"image/jpeg", "image/png", "application/x-unknown", "image/webp">>)
    /\ Len(outcome.value.pages) = 3
    /\ outcome.value.pages[1].number = 0
    /\ outcome.value.pages[2].number = 1
    /\ outcome.value.pages[3].number = 3

(***************************************************************************)
(* C10. After every completed setStateData the stored authorization header *)
(* is the header of the stored username and password.                      *)
(***************************************************************************)
C10_HeaderMatchesStoredCredentials ==
    (submission.pc = "idle" /\ DOMAIN keychain # {}) =>
        /\ DOMAIN keychain = {"serverUsername", "serverPassword", "authorization"}
        /\ keychain.authorization =
             <<"B","a","s","i","c"," ">>
             \o toBase64(bufferFromBinary(keychain.serverUsername \o <<":">>
                                          \o keychain.serverPassword))

\* a second submission changed the password: the header is the new one's
C10_Witness ==
    /\ submission.pc = "idle"
    /\ "authorization" \in DOMAIN keychain
    /\ keychain.serverUsername = <<"u">>
    /\ keychain.serverPassword = <<"q">>
    /\ keychain.authorization =
          <<"B","a","s","i","c"," ","d","T","p","x">>

(***************************************************************************)
(* C11. A submission of the settings form stores an authorization header   *)
(* derived from the fields the form submits: the header a submission has   *)
(* stored differs from the header stored by a submission that differs from *)
(* it only in the credential entered (the 'API Key' field).                *)
(***************************************************************************)
\* a form submission has stored its credentials and still holds its values
credentialsStored ==
    /\ submission.pc = "showOnDeck"
    /\ "serverAPIkey" \in DOMAIN submission.data

differOnlyInCredential(values, other) ==
    /\ values.serverAddress = other.serverAddress
    /\ values.showOnDeck = other.showOnDeck
    /\ values.serverAPIkey # other.serverAPIkey

C11_HeaderFollowsEnteredCredential ==
    credentialsStored =>
        /\ state.serverAddress = submission.data.serverAddress
        /\ \A other \in FormValues :
              differOnlyInCredential(submission.data, other) =>
                  keychain.authorization # storeAfter(other).keychain.authorization

(***************************************************************************)
(* C12. getMangaDetails, getChapters, getChapterDetails and                *)
(* getViewMoreItems schedule one request; when it rejects the call raises  *)
(* the rejection, when its body does not parse the call raises the parse   *)
(* error, and in neither case does the call return a value or hand         *)
(* anything to a callback.                                                 *)
(***************************************************************************)
navigationCall ==
    call.op \in {"getMangaDetails", "getChapters", "getChapterDetails", "getViewMoreItems"}

unparsed ==
    /\ call.pc = "done"
    /\ "response" \in DOMAIN call
    /\ call.response.kind = "resolve"
    /\ ~parses(call.response.data)

C12_NavigationErrorsPropagate ==
    navigationCall =>
        /\ call.pc # "idle" => scheduled = 1
        /\ rejected => outcome = [kind |-> "raised", error |-> call.response.message]
        /\ unparsed => outcome = [kind |-> "raised", error |-> "SyntaxError"]
        /\ (rejected \/ unparsed) => Len(callbacks) = 0

\* the request of getMangaDetails timed out and the call raised the timeout
C12_Witness ==
    /\ call.op = "getMangaDetails" /\ rejected
    /\ scheduled = 1
    /\ outcome.kind = "raised"
    /\ outcome.error = "AsyncOperationTimedOutError"

(***************************************************************************)
(* C13. testServerSettings never raises: it returns 'Successful            *)
(* connection!' exactly when the response status is 200, the 401 message   *)
(* exactly when it is 401, 'Error <status>' for every other status, and    *)
(* the 'Could not connect' message when the request rejects.               *)
(***************************************************************************)
C13_TestReportsAMessage ==
    (call.op = "testServerSettings" /\ call.pc = "done") =>
        /\ outcome.kind = "returned"
        /\ "response" \in DOMAIN call
        /\ IF call.response.kind = "reject"
           THEN outcome.value = <<"Failed: Could not connect to server - ",
                                  call.response.message>>
           ELSE /\ (outcome.value = <<"Successful connection!">>)
                      <=> (call.response.status = 200)
                /\ (outcome.value = <<"Error 401 Unauthorized: Invalid credentials">>)
                      <=> (call.response.status = 401)
                /\ call.response.status \notin {200, 401} =>
                      outcome.value = <<"Error ", call.response.status>>

\* the server answered 401 while a submission was half stored
C13_Witness ==
    /\ call.op = "testServerSettings" /\ call.pc = "done"
    /\ submission.pc = "authorization"
    /\ call.response.kind = "resolve"
    /\ call.response.status = 401
    /\ outcome = returned(<<"Error 401 Unauthorized: Invalid credentials">>)

(***************************************************************************)
(* C14. The server address and the authorization header of every request   *)
(* that goes out come from one and the same state of the settings: the     *)
(* store as one finished submission or reset left it, or the store before  *)
(* the first of them; never the address of one with the header of another. *)
(***************************************************************************)
\* the address and header an adapter reads from a store no submission is
\* halfway through writing
settledPairs ==
    { [api |-> getKavitaAPI(s.state),
       authorization |-> getAuthorizationString(s.keychain)] : s \in SettledStores }

C14_AddressAndHeaderOfOneSubmission ==
    request.stage = "sent" =>
        [api |-> request.req.url.base,
         authorization |-> request.req.headers.authorization] \in settledPairs

(***************************************************************************)
(* The home feed alone: getHomePageSections and the getViewMoreItems of    *)
(* its section. Every scheduled request is intercepted and settles.        *)
(***************************************************************************)
homeAnswer ==
    \E r \in ListingAnswers :
        getHomePageSectionsResume(r) \/ getViewMoreItemsResume(r)

NextHome ==
    \/ getHomePageSections
    \/ \E m \in Cursors : getViewMoreItems("ondeck", m)
    \/ hostTakesResult
    \/ intercept
    \/ homeAnswer

SpecHome ==
    InitAdapter /\ [][NextHome]_vars /\ WF_vars(intercept) /\ WF_vars(homeAnswer)

(***************************************************************************)
(* C15. In getHomePageSections every enabled section is handed to the      *)
(* callback without tiles no later than its request is scheduled, and      *)
(* again with the tiles of its own response once the request resolves; the *)
(* call returns only after the second callback of every enabled section.   *)
(***************************************************************************)
homeCall == call.op = "getHomePageSections"

\* the callback was handed section s without tiles
isLoading(section, s) == section = s /\ "items" \notin DOMAIN section

\* the callback was handed section s with the tiles of content
isPopulated(section, s, content) ==
    /\ "items" \in DOMAIN section
    /\ section = s @@ [items |-> section.items]
    /\ Len(section.items) = Len(content)
    /\ \A i \in 1..Len(content) :
          /\ section.items[i].id = content[i].id
          /\ section.items[i].title = content[i].name

C15_LoadingBeforeRequest ==
    (homeCall /\ call.pc = "awaiting") =>
        /\ request.stage # "none"
        /\ Len(call.sections) = 1
        /\ Len(callbacks) = 1
        /\ isLoading(callbacks[1], call.sections[1])

C15_PopulatedBeforeReturn ==
    (homeCall /\ call.pc = "done") =>
        /\ outcome.kind = "returned" =>
              /\ Len(callbacks) = 2 * Len(call.sections)
              /\ \A i \in 1..Len(call.sections) :
                    /\ answered
                    /\ isLoading(callbacks[1], call.sections[i])
                    /\ isPopulated(callbacks[2], call.sections[i],
                                   call.response.data.value.content)
        /\ answered => outcome.kind = "returned"

\* a section is handed over with tiles only by the step in which its request
\* resolves
C15_PopulatedOnResolve ==
    [][ (homeCall /\ Len(callbacks') > Len(callbacks)) =>
            /\ call.pc = "awaiting" /\ request.stage = "sent"
            /\ call'.pc = "done" /\ call'.response.kind = "resolve" ]_vars

C15_SectionsLoadThenPopulate ==
    /\ [](C15_LoadingBeforeRequest /\ C15_PopulatedBeforeReturn)
    /\ C15_PopulatedOnResolve
    /\ (homeCall /\ call.pc = "awaiting") ~> (homeCall /\ call.pc = "done")

\* the on-deck request resolved with two series and the call returned
C15_Witness ==
    /\ homeCall /\ call.pc = "done" /\ answered
    /\ outcome.kind = "returned"
    /\ Len(callbacks) = 2
    /\ "items" \notin DOMAIN callbacks[1]
    /\ Len(callbacks[2].items) = 2

(***************************************************************************)
(* C16. filterUpdatedManga invokes the update callback once after every    *)
(* page it has processed, the page on which the scan stops included, each  *)
(* time with all the IDs accumulated so far.                               *)
(***************************************************************************)
\* the number of pages whose for loop has run: page is incremented after it
pagesProcessed == call.page

C16_CallbackAfterEveryPage ==
    polling =>
        /\ Len(callbacks) = pagesProcessed
        /\ pagesProcessed > 0 => callbacks[Len(callbacks)].ids = call.foundIds

(***************************************************************************)
(* C17. Once the setStateData of the reset button has completed,           *)
(* getKavitaAPI returns the API base it returns on a store that was never  *)
(* configured.                                                             *)
(***************************************************************************)
\* no submission is running and the store is as a reset leaves it: a reset
\* writes every key, so what it leaves does not depend on the store before
resetCompleted ==
    /\ submission.pc = "idle"
    /\ state = storeAfter(EmptyObject).state
    /\ keychain = storeAfter(EmptyObject).keychain

C17_ResetRestoresUnconfiguredBase ==
    resetCompleted => getKavitaAPI(state) = getKavitaAPI(EmptyObject)
====
